---- MODULE Spec2Model ----
(***************************************************************************)
(* Model of zaphod's "revise" session (src/zaphodtex/zaphod.py).           *)
(*                                                                         *)
(* A document is a sequence of tokens.  Each latexdiff marker literal is   *)
(* one token, a whitespace character is one token and any other text is    *)
(* an opaque token; offsets are Python offsets (0-based) into that         *)
(* sequence.  The program blocks at input(): an action is one answer to a  *)
(* prompt, or one iteration of the scan loop of Zaphod.revise.             *)
(***************************************************************************)
EXTENDS Integers, Sequences, FiniteSets, TLC

VARIABLES
    disk,             \* file name -> text of the file on disk
    filelist,         \* self.filelist: the queue of files with annotations
    modifiedfiles,    \* self.modifiedfiles
    modified,         \* self.modified: the dirty flag
    pc,               \* where the process is blocked or what it runs next
    filetorevise,     \* the file selected at the menu
    filetext,         \* text read from filetorevise
    revisedfiletext,  \* the output buffer
    head,             \* cursor: head of a token
    tail,             \* cursor: tail of the previous token
    change,           \* the local `deletion` / `addition` shown at the prompt
    \* history variables: they record what happened, no action reads them
    disk0,            \* the directory as it was when the session started
    spanAt,           \* offset of the begin marker of the span under decision
    log,              \* Accept/Reject decisions of the current pass
    written,          \* texts handed to outputfile.write for the current file
    quitAt,           \* "" or the prompt at which Quit was entered
    snap,             \* the directory as remove_preamble's inspection saw it
    endlog,           \* end-of-session calls, in call order
    decided           \* the files in which a span was accepted or rejected

vars == <<disk, filelist, modifiedfiles, modified, pc, filetorevise, filetext,
          revisedfiletext, head, tail, change, disk0, spanAt, log, written,
          quitAt, snap, endlog, decided>>

-----------------------------------------------------------------------------
(* Sentinel grammar *)

ADD_BEGIN == "\\DIFaddbegin"
ADD_END == "\\DIFaddend"
DEL_BEGIN == "\\DIFdelbegin"
DEL_END == "\\DIFdelend"
ADD_OPEN == "\\DIFadd{"
DEL_OPEN == "\\DIFdel{"
CLOSE == "}"
PRE_BEGIN == "%DIF PREAMBLE EXTENSION ADDED BY LATEXDIFF"
PRE_END == "%DIF END PREAMBLE EXTENSION ADDED BY LATEXDIFF\n"

\* what \s matches
Whitespace == {" ", "\n"}

-----------------------------------------------------------------------------
(* Python slices and regular-expression searches *)

\* s[a:b]
Slice(s, a, b) == SubSeq(s, a + 1, b)

\* s[a:]
From(s, a) == SubSeq(s, a + 1, Len(s))

InSeq(x, s) == \E i \in 1..Len(s) : s[i] = x

\* offset of the first occurrence of tok in s, -1 when there is none
Find(tok, s) ==
    IF \E i \in 1..Len(s) : s[i] = tok
    THEN (CHOOSE i \in 1..Len(s) :
              s[i] = tok /\ \A j \in 1..(i - 1) : s[j] # tok) - 1
    ELSE -1

\* offset of the last occurrence of tok in s, -1 when there is none
FindLast(tok, s) ==
    IF \E i \in 1..Len(s) : s[i] = tok
    THEN (CHOOSE i \in 1..Len(s) :
              s[i] = tok /\ \A j \in (i + 1)..Len(s) : s[j] # tok) - 1
    ELSE -1

\* length of the whitespace run of s that starts at offset a
WsRun(s, a) ==
    CHOOSE n \in 0..(Len(s) - a) :
        /\ \A k \in 1..n : s[a + k] \in Whitespace
        /\ (a + n = Len(s) \/ s[a + n + 1] \notin Whitespace)

\* a match object; found = FALSE is Python's None
NoMatch == [found |-> FALSE, start |-> 0, end |-> 0]

\* mutant: "not found" is position 0
StartOrZero(check, text) == IF check.found THEN check.start ELSE 0

\* del_start, add_start, preamble_start: the start of the match, counted
\* from the cursor, or len(filetext) when the search returned None
StartOf(check, text) == IF check.found THEN check.start ELSE Len(text)

\* mutant: the marker patterns without their trailing \s*
SearchNoSpace(marker, s) ==
    LET p == Find(marker, s)
    IN  IF p = -1 THEN NoMatch
        ELSE [found |-> TRUE, start |-> p, end |-> p + 1]

\* re.compile(marker + r"\s*").search(s)
Search(marker, s) ==
    LET p == Find(marker, s)
    IN  IF p = -1 THEN NoMatch
        ELSE [found |-> TRUE, start |-> p, end |-> p + 1 + WsRun(s, p + 1)]

\* rxPreamble.search(s): PRE_BEGIN .* PRE_END, greedy, DOTALL
SearchPreamble(s) ==
    LET b == Find(PRE_BEGIN, s)
        e == FindLast(PRE_END, s)
    IN  IF b # -1 /\ e > b
        THEN [found |-> TRUE, start |-> b, end |-> e + 1]
        ELSE NoMatch

\* mutant: the block ends at the first preamble end marker behind its begin
SubPreambleShortest(s) ==
    LET b == Find(PRE_BEGIN, s)
        e == IF b = -1 THEN -1 ELSE Find(PRE_END, From(s, b))
    IN  IF b # -1 /\ e # -1
        THEN Slice(s, 0, b) \o From(s, b + e + 1)
        ELSE s

\* re.sub(rPreamble, "", s, flags=re.DOTALL)
SubPreamble(s) ==
    LET m == SearchPreamble(s)
    IN  IF m.found THEN Slice(s, 0, m.start) \o From(s, m.end) ELSE s

\* re.sub(open + r"(.*?)\}", r"\1", s, flags=re.DOTALL)
RECURSIVE SubWrapper(_, _)
SubWrapper(open, s) ==
    IF s = <<>> THEN <<>>
    ELSE IF Head(s) = open /\ Find(CLOSE, Tail(s)) # -1
         THEN LET c == Find(CLOSE, Tail(s))
              IN  Slice(Tail(s), 0, c) \o SubWrapper(open, From(Tail(s), c + 1))
         ELSE <<Head(s)>> \o SubWrapper(open, Tail(s))

-----------------------------------------------------------------------------
(* The directory and the documents a session may start from *)

Files == <<"a.tex", "b.tex">>

FileSet == {Files[i] : i \in 1..Len(Files)}

MaxPieces == 3

AddSpan == <<ADD_BEGIN, " ", ADD_OPEN, "a", CLOSE, ADD_END>>
DelSpan == <<DEL_BEGIN, DEL_OPEN, "d", CLOSE, DEL_END>>

Pieces ==
    { <<"x">>, <<" ">>, <<ADD_BEGIN>>, <<ADD_END>>, <<DEL_BEGIN>>, <<DEL_END>>,
      <<PRE_BEGIN>>, <<PRE_END>>, AddSpan, DelSpan }

RECURSIVE DocsOf(_)
DocsOf(n) ==
    IF n = 0 THEN { <<>> }
    ELSE LET shorter == DocsOf(n - 1)
         IN  shorter \cup { d \o p : d \in shorter, p \in Pieces }

\* "A \DIFaddbegin \DIFadd{new text}\DIFaddend B"
ExampleAdd ==
    <<"A", " ", ADD_BEGIN, " ", ADD_OPEN, "new", " ", "text", CLOSE, ADD_END,
      " ", "B">>

\* "X \DIFdelbegin\DIFdel{old}\DIFdelend Y"
ExampleDel ==
    <<"X", " ", DEL_BEGIN, DEL_OPEN, "old", CLOSE, DEL_END, " ", "Y">>

Preamble == <<PRE_BEGIN, "p", PRE_END>>

\* literal text around and between an addition and a deletion
Mixed == <<"x", " ">> \o AddSpan \o <<" ", "y", "\n">> \o DelSpan \o <<"z">>

\* an opening brace of the changed text
OPEN == "{"

\* "\DIFaddbegin \DIFadd{\emph{a} b}\DIFaddend": the argument of the wrapper
\* holds a braced group
BracedAdd ==
    <<ADD_BEGIN, " ", ADD_OPEN, "\\emph", OPEN, "a", CLOSE, " ", "b", CLOSE,
      ADD_END>>

\* a deletion whose wrapper argument runs over two lines
TwoLineDel == <<DEL_BEGIN, DEL_OPEN, "l1", "\n", "l2", CLOSE, DEL_END>>

\* two preamble blocks with text between them, in front of an addition
TwoBlocks == <<"t">> \o Preamble \o <<"m">> \o Preamble \o AddSpan \o <<"z">>

SampleDocs ==
    {ExampleAdd, ExampleDel, Mixed, <<"t">> \o Preamble \o Mixed, BracedAdd,
     TwoLineDel, TwoBlocks}

Docs == DocsOf(MaxPieces) \cup SampleDocs

OtherDocs ==
    { <<"x">>, DelSpan, Preamble \o <<"x">>, Preamble \o AddSpan }

\* what input() may return: the accepted answers, a letter that is none of
\* them, and a string that is not alphabetic
Inputs == {"Y", "y", "N", "n", "Q", "q", "z", "7"}

Alpha == Inputs \ {"7"}

\* the character U+00B2, superscript two: str.isdigit() is True for it and
\* int() raises ValueError
SuperscriptTwo == "^2"

\* answers to "Pick file to revise?" that are not decimal numbers
MenuStrings == Alpha \cup {SuperscriptTwo, "-1"}

\* filenumber.isdigit()
IsDigit(s) == s \in {"7", SuperscriptTwo}

Yes == {"Y", "y"}
No == {"N", "n"}
Quit == {"Q", "q"}

-----------------------------------------------------------------------------
(* File Set Inspector and preamble removal *)

\* the test of get_modified_latex_files on one file's text
\* mutant: the begin markers are searched in the whole text, preamble block
\* included
AnnotatedAnywhere(text) ==
    Find(DEL_BEGIN, text) # -1 \/ Find(ADD_BEGIN, text) # -1

Annotated(text) ==
    LET body == SubPreamble(text)
        delcheck == Search(DEL_BEGIN, body)
        addcheck == Search(ADD_BEGIN, body)
        del_start == StartOf(delcheck, body)
        add_start == StartOf(addcheck, body)
    IN  add_start # del_start

\* the *.tex files os.walk finds in the directory d, in walk order
TexFiles(d) == SelectSeq(Files, LAMBDA f : f \in DOMAIN d)

\* get_modified_latex_files on the directory d, in walk order
get_modified_latex_files(d) ==
    SelectSeq(TexFiles(d), LAMBDA f : Annotated(d[f]))

\* mutant: the inspector fails when no file is annotated
NoAnnotatedFiles(d) == get_modified_latex_files(d) = <<>>

\* if not len(filelist) > 0: the inspector prints its error and exits
NoTexFiles(d) == TexFiles(d) = <<>>

\* mutant: the preambles are removed whatever the inspector reports
remove_preamble_unchecked(d, mf) ==
    [f \in DOMAIN d |-> IF InSeq(f, mf) THEN SubPreamble(d[f]) ELSE d[f]]

\* remove_preamble: the directory it leaves, given the directory d and
\* self.modifiedfiles mf
remove_preamble(d, mf) ==
    IF Len(get_modified_latex_files(d)) = 0
    THEN [f \in DOMAIN d |-> IF InSeq(f, mf) THEN SubPreamble(d[f]) ELSE d[f]]
    ELSE d

\* mutant: the revised file stays in the queue
ListRemoveNothing(s, x) == s

\* list.remove(x): drops the first occurrence
ListRemove(s, x) ==
    LET i == CHOOSE k \in 1..Len(s) : s[k] = x /\ \A j \in 1..(k - 1) : s[j] # x
    IN  SubSeq(s, 1, i - 1) \o SubSeq(s, i + 1, Len(s))

-----------------------------------------------------------------------------
(* The session *)

Init ==
    /\ \/ \E a \in Docs, b \in OtherDocs :
              disk = (Files[1] :> a) @@ (Files[2] :> b)
       \/ disk = [f \in {} |-> <<>>]
    /\ filelist = <<>>
    /\ modifiedfiles = <<>>
    /\ modified = FALSE
    /\ pc = "start"
    /\ filetorevise = ""
    /\ filetext = <<>>
    /\ revisedfiletext = <<>>
    /\ head = 0
    /\ tail = 0
    /\ change = <<>>
    /\ disk0 = disk
    /\ spanAt = 0
    /\ log = <<>>
    /\ decided = {}
    /\ written = <<>>
    /\ quitAt = ""
    /\ snap = <<>>
    /\ endlog = <<>>

\* mutant: Quit leaves the current file only, the menu comes back
EndSessionBackToMenu(d, mf, withPreamble) ==
    /\ disk' = d
    /\ modifiedfiles' = mf
    /\ pc' = "menu"
    /\ UNCHANGED <<snap, endlog>>

\* The calls that end a session, from the directory d and the list mf the
\* handler has produced so far: remove_preamble (not on every path),
\* generate_pdf, which prompts only when files were modified, and
\* save_changes, which prompts under the same condition and exits.
EndSession(d, mf, withPreamble) ==
    /\ disk' = IF withPreamble THEN remove_preamble(d, mf) ELSE d
    /\ modifiedfiles' = mf
    /\ snap' = IF withPreamble THEN <<d>> ELSE <<>>
    /\ endlog' = endlog
                 \o (IF withPreamble THEN <<"remove_preamble">> ELSE <<>>)
                 \o <<"generate_pdf">>
                 \o (IF Len(mf) > 0 THEN <<>> ELSE <<"save_changes">>)
    /\ pc' = IF Len(mf) > 0 THEN "genpdf" ELSE "done"

\* the session goes on at nextpc
GoOn(d, mf, nextpc) ==
    /\ disk' = d
    /\ modifiedfiles' = mf
    /\ pc' = nextpc
    /\ UNCHANGED <<snap, endlog>>

\* revise, up to the first prompt; the inspector exits with -1 in a
\* directory without *.tex files
Revise ==
    /\ pc = "start"
    /\ IF NoTexFiles(disk)
       THEN /\ pc' = "nofiles"
            /\ UNCHANGED <<disk, filelist, modifiedfiles, snap, endlog>>
       ELSE /\ filelist' = get_modified_latex_files(disk)
            /\ IF Len(filelist') > 0
               THEN GoOn(disk, modifiedfiles, "menu")
               ELSE EndSession(disk, modifiedfiles, TRUE)
    /\ UNCHANGED <<modified, filetorevise, filetext, revisedfiletext, head, tail,
                   change, disk0, spanAt, log, decided, written, quitAt>>

\* mutant: the flag of the file revised before stays
ModifiedCarriedOver(m) == m

\* self.modified = False when a file of the menu is picked
ModifiedAtSelection(m) == FALSE

\* "Pick file to revise?" answered with the digits of filenumber
MenuNumber(filenumber) ==
    /\ pc = "menu"
    /\ IF filenumber > 0 /\ filenumber <= Len(filelist)
       THEN /\ modified' = ModifiedAtSelection(modified)
            /\ filetorevise' = filelist[filenumber]
            /\ filetext' = disk[filelist[filenumber]]
            /\ revisedfiletext' = <<>>
            /\ head' = 0
            /\ tail' = 0
            /\ pc' = "scan"
            /\ log' = <<>>
            /\ decided' = decided
            /\ written' = <<>>
            /\ UNCHANGED <<disk, filelist, modifiedfiles, change, disk0, spanAt,
                           quitAt, snap, endlog>>
       ELSE UNCHANGED vars

\* "Pick file to revise?" answered with something that is not a decimal
\* number: Q or q ends the session, int() raises on a digit that is not
\* decimal, anything else brings the menu again
MenuText(filenumber) ==
    /\ pc = "menu"
    /\ IF filenumber \in Quit
       THEN /\ EndSession(disk, modifiedfiles, TRUE)
            /\ quitAt' = "menu"
            /\ UNCHANGED <<filelist, modified, filetorevise, filetext,
                           revisedfiletext, head, tail, change, disk0, spanAt,
                           log, decided, written>>
       ELSE IF IsDigit(filenumber)
       THEN /\ pc' = "valueerror"
            /\ UNCHANGED <<disk, filelist, modifiedfiles, modified, filetorevise,
                           filetext, revisedfiletext, head, tail, change, disk0,
                           spanAt, log, decided, written, quitAt, snap, endlog>>
       ELSE UNCHANGED vars

\* how open(filetorevise, "w"), write and close may end
IOOutcomes == {"ok", "open fails", "write fails"}

\* mutant: the text is written to every file of the directory
WriteFileEverywhere(d, f, text, io) == [g \in DOMAIN d |-> text]

\* the directory after open(f, "w"), write(text), close(): a failed open
\* leaves the file, a failed write leaves it truncated
WriteFile(d, f, text, io) ==
    IF io = "ok" THEN [d EXCEPT ![f] = text]
    ELSE IF io = "open fails" THEN d
    ELSE [d EXCEPT ![f] = <<>>]

\* mutant: a written file is not recorded
RecordedNever(mf, f, io) == mf

\* mutant: the file is recorded before it is written
RecordedBeforeWrite(mf, f, io) == Append(mf, f)

\* self.modifiedfiles += [filetorevise] stands behind close(): the exception
\* of a failed write skips it
Recorded(mf, f, io) == IF io = "ok" THEN Append(mf, f) ELSE mf

\* the write raised: nothing catches the exception, the process ends
WriteFailed(out, io) ==
    /\ revisedfiletext' = out
    /\ disk' = WriteFile(disk, filetorevise, out, io)
    /\ modifiedfiles' = Recorded(modifiedfiles, filetorevise, io)
    /\ pc' = "ioerror"
    /\ UNCHANGED <<filelist, modified, filetorevise, filetext, head, tail,
                   change, disk0, spanAt, log, decided, written, quitAt, snap, endlog>>

\* the file's pass is over: write the output, record the file, take it off
\* the queue; then the menu again, or the end of the session
FinishFile(out) ==
    \E io \in IOOutcomes :
        IF io = "ok"
        THEN /\ revisedfiletext' = out
             /\ written' = Append(written, out)
             /\ filelist' = ListRemove(filelist, filetorevise)
             /\ IF Len(filelist') > 0
                THEN GoOn(WriteFile(disk, filetorevise, out, io),
                          Recorded(modifiedfiles, filetorevise, io), "menu")
                ELSE EndSession(WriteFile(disk, filetorevise, out, io),
                                Recorded(modifiedfiles, filetorevise, io), TRUE)
             /\ UNCHANGED <<modified, filetorevise, filetext, head, tail, change,
                            disk0, spanAt, log, decided, quitAt>>
        ELSE WriteFailed(out, io)

\* mutant: the offset into filetext[head:] taken for an offset into filetext
SpanHeadNoTail(start, t) == start

\* head = start + tail, where start is an offset into filetext[head:]
SpanHead(start, t) == start + t

\* mutant: a missing end marker goes unnoticed
NeverRaises(endcheck) == FALSE

\* rxDelend.search(...).start(), rxAddend.search(...).start(): AttributeError
\* when the search returned None
Raises(endcheck) == ~endcheck.found

\* a span was found at `start`: copy the text before it, step over the begin
\* marker, find the end marker, and prompt; with no end marker the
\* .start() of None raises AttributeError, which nothing catches
FindSpan(begin, end, open, start, prompt) ==
    LET h1 == SpanHead(start, tail)
        t1 == Search(begin, From(filetext, h1)).end + h1
        endcheck == Search(end, From(filetext, t1))
        h2 == endcheck.start + t1
    IN  /\ revisedfiletext' = revisedfiletext \o Slice(filetext, tail, h1)
        /\ tail' = t1
        /\ spanAt' = h1
        /\ IF ~Raises(endcheck)
           THEN /\ head' = h2
                /\ change' = SubWrapper(open, Slice(filetext, t1, h2))
                /\ pc' = prompt
           ELSE /\ head' = h1
                /\ change' = change
                /\ pc' = "crashed"
        /\ UNCHANGED <<disk, filelist, modifiedfiles, modified, filetorevise,
                       filetext, disk0, log, decided, written, quitAt, snap, endlog>>

\* mutant: the cursor steps over the preamble block without copying it
SkipPreambleNoCopy(preamblecheck) ==
    /\ tail' = head + preamblecheck.end
    /\ head' = tail'
    /\ UNCHANGED <<disk, filelist, modifiedfiles, modified, pc, filetorevise,
                   filetext, revisedfiletext, change, disk0, spanAt, log, decided, written,
                   quitAt, snap, endlog>>

\* the preamble comes first: copy it and go on behind it
SkipPreamble(preamblecheck) ==
    /\ tail' = head + preamblecheck.end
    /\ revisedfiletext' = revisedfiletext \o Slice(filetext, head, tail')
    /\ head' = tail'
    /\ UNCHANGED <<disk, filelist, modifiedfiles, modified, pc, filetorevise,
                   filetext, change, disk0, spanAt, log, decided, written, quitAt, snap,
                   endlog>>

\* mutant: the text behind the last span is not copied
DropRest(out, rest) == out

\* revisedfiletext += filetext[head:] when no begin marker is left
CopyRest(out, rest) == out \o rest

\* one iteration of `while head < len(filetext)`, or the exit from the loop
ScanStep ==
    /\ pc = "scan"
    /\ IF head < Len(filetext)
       THEN LET rest == From(filetext, head)
                delcheck == Search(DEL_BEGIN, rest)
                addcheck == Search(ADD_BEGIN, rest)
                preamblecheck == SearchPreamble(rest)
                preamble_start == StartOf(preamblecheck, filetext)
                del_start == StartOf(delcheck, filetext)
                add_start == StartOf(addcheck, filetext)
            IN  IF add_start = del_start
                THEN FinishFile(CopyRest(revisedfiletext, rest))
                ELSE IF preamble_start < del_start /\ preamble_start < add_start
                THEN SkipPreamble(preamblecheck)
                ELSE IF del_start < add_start
                THEN FindSpan(DEL_BEGIN, DEL_END, DEL_OPEN, del_start, "delprompt")
                ELSE FindSpan(ADD_BEGIN, ADD_END, ADD_OPEN, add_start, "addprompt")
       ELSE FinishFile(revisedfiletext)

\* the scan loop on `text` from the cursor h with the output `out`, run
\* until it asks for a decision or ends: whether it asked, and the output
RECURSIVE ScanToPrompt(_, _, _)
ScanToPrompt(text, h, out) ==
    IF h < Len(text)
    THEN LET rest == From(text, h)
             delcheck == Search(DEL_BEGIN, rest)
             addcheck == Search(ADD_BEGIN, rest)
             preamblecheck == SearchPreamble(rest)
             preamble_start == StartOf(preamblecheck, text)
             del_start == StartOf(delcheck, text)
             add_start == StartOf(addcheck, text)
         IN  IF add_start = del_start
             THEN [asked |-> FALSE, out |-> CopyRest(out, rest)]
             ELSE IF preamble_start < del_start /\ preamble_start < add_start
             THEN ScanToPrompt(text, h + preamblecheck.end,
                               out \o Slice(text, h, h + preamblecheck.end))
             ELSE [asked |-> TRUE, out |-> out]
    ELSE [asked |-> FALSE, out |-> out]

-----------------------------------------------------------------------------
(* The prompts of a span *)

\* mutant: a restored deletion replaces the output so far
DelOutputForgets(userinput, out, deletion) ==
    IF userinput \in No THEN deletion ELSE out

\* mutant: an accepted deletion is kept and a rejected one dropped
DelOutputSwapped(userinput, out, deletion) ==
    IF userinput \in Yes THEN out \o deletion ELSE out

\* the output buffer after the answer to "Accept deletion?"
DelOutput(userinput, out, deletion) ==
    IF userinput \in No THEN out \o deletion ELSE out

\* mutant: a rejected addition stays in the output as a span
AddOutputStillMarked(userinput, out, addition) ==
    IF userinput \in Yes THEN out \o addition
    ELSE out \o <<ADD_BEGIN>> \o addition \o <<ADD_END>>

\* the output buffer after the answer to "Accept addition?"
AddOutput(userinput, out, addition) ==
    IF userinput \in Yes THEN out \o addition ELSE out

\* self.modified after the answer to "Accept deletion?"
DelDirty(userinput, m) == IF userinput \in Yes THEN TRUE ELSE m

\* self.modified after the answer to "Accept addition?"
AddDirty(userinput, m) == IF userinput \in Yes THEN TRUE ELSE m

\* what "Save partial file?" writes: revisedfiletext += filetext[head:]
PartialText(out, text, h) == out \o From(text, h)

\* mutant: the partial save is offered at every Quit
OffersSaveAlways(m) == TRUE

\* if self.modified: the partial save is offered
OffersSave(m) == m

\* mutant: tail stays behind the begin marker of the span
TailKept(h, t) == t

\* tail = head, behind the end marker of the span that was decided
TailBehindSpan(h, t) == h

\* the answer to a span's prompt: Y or N resolve the span and the scan goes
\* on behind its end marker; Q ends the session, through "Save partial
\* file?" when the file is dirty; anything else prompts again
Answer(userinput, kind, end, out, dirty, savepc, withPreamble) ==
    IF userinput \in Yes \cup No
    THEN /\ revisedfiletext' = out
         /\ modified' = dirty
         /\ head' = Search(end, From(filetext, tail)).end + tail
         /\ tail' = TailBehindSpan(head', tail)
         /\ pc' = "scan"
         /\ log' = Append(log, [kind |-> kind,
                                at |-> spanAt,
                                to |-> head',
                                dec |-> IF userinput \in Yes THEN "Y" ELSE "N",
                                text |-> change])
         /\ decided' = decided \cup {filetorevise}
         /\ UNCHANGED <<disk, filelist, modifiedfiles, filetorevise, filetext,
                        change, disk0, spanAt, written, quitAt, snap, endlog>>
    ELSE IF userinput \in Quit
    THEN /\ quitAt' = kind
         /\ IF OffersSave(modified)
            THEN GoOn(disk, modifiedfiles, savepc)
            ELSE EndSession(disk, modifiedfiles, withPreamble)
         /\ UNCHANGED <<filelist, modified, filetorevise, filetext,
                        revisedfiletext, head, tail, change, disk0, spanAt, log, decided,
                        written>>
    ELSE UNCHANGED vars

\* the answer to "Save partial file?"
SavePartial(savepartial, withPreamble) ==
    IF savepartial \in Yes
    THEN \E io \in IOOutcomes :
             LET out == PartialText(revisedfiletext, filetext, head)
             IN  IF io = "ok"
                 THEN /\ revisedfiletext' = out
                      /\ written' = Append(written, out)
                      /\ EndSession(WriteFile(disk, filetorevise, out, io),
                                    Recorded(modifiedfiles, filetorevise, io),
                                    withPreamble)
                      /\ UNCHANGED <<filelist, modified, filetorevise, filetext,
                                     head, tail, change, disk0, spanAt, log, decided,
                                     quitAt>>
                 ELSE WriteFailed(out, io)
    ELSE IF savepartial \in No
    THEN /\ EndSession(disk, modifiedfiles, withPreamble)
         /\ UNCHANGED <<filelist, modified, filetorevise, filetext,
                        revisedfiletext, head, tail, change, disk0, spanAt, log, decided,
                        written, quitAt>>
    ELSE UNCHANGED vars

\* "Accept deletion? Y/N/Q/y/n/q: "
DelPrompt(userinput) ==
    /\ pc = "delprompt"
    /\ Answer(userinput, "del", DEL_END,
              DelOutput(userinput, revisedfiletext, change),
              DelDirty(userinput, modified), "delsave", FALSE)

\* "Save partial file? Y/N/y/n: " after Q at a deletion
DelSave(savepartial) ==
    /\ pc = "delsave"
    /\ SavePartial(savepartial, FALSE)

\* "Accept addition? Y/N/Q/y/n/q: "
AddPrompt(userinput) ==
    /\ pc = "addprompt"
    /\ Answer(userinput, "add", ADD_END,
              AddOutput(userinput, revisedfiletext, change),
              AddDirty(userinput, modified), "addsave", TRUE)

\* "Save partial file? Y/N/y/n: " after Q at an addition
AddSave(savepartial) ==
    /\ pc = "addsave"
    /\ SavePartial(savepartial, TRUE)

-----------------------------------------------------------------------------
(* Build and commit *)

\* "Generate pdf? Y/y/N/n: "; latexmk may fail, save_changes is called next
\* in every case and prompts, because files were modified
GeneratePdf(generatepdf) ==
    /\ pc = "genpdf"
    /\ IF generatepdf \in Yes \cup No
       THEN /\ pc' = "commit"
            /\ endlog' = Append(endlog, "save_changes")
            /\ UNCHANGED <<disk, filelist, modifiedfiles, modified, filetorevise,
                           filetext, revisedfiletext, head, tail, change, disk0,
                           spanAt, log, decided, written, quitAt, snap>>
       ELSE UNCHANGED vars

\* "Commit current changes? Y/y/N/n: ", then sys.exit(0)
SaveChanges(savechanges) ==
    /\ pc = "commit"
    /\ IF savechanges \in Yes \cup No
       THEN /\ pc' = "done"
            /\ UNCHANGED <<disk, filelist, modifiedfiles, modified, filetorevise,
                           filetext, revisedfiletext, head, tail, change, disk0,
                           spanAt, log, decided, written, quitAt, snap, endlog>>
       ELSE UNCHANGED vars

-----------------------------------------------------------------------------

Next ==
    \/ Revise
    \/ \E filenumber \in 0..(Len(Files) + 1) : MenuNumber(filenumber)
    \/ \E filenumber \in MenuStrings : MenuText(filenumber)
    \/ ScanStep
    \/ \E userinput \in Inputs : DelPrompt(userinput)
    \/ \E savepartial \in Inputs : DelSave(savepartial)
    \/ \E userinput \in Inputs : AddPrompt(userinput)
    \/ \E savepartial \in Inputs : AddSave(savepartial)
    \/ \E generatepdf \in Inputs : GeneratePdf(generatepdf)
    \/ \E savechanges \in Inputs : SaveChanges(savechanges)

Spec == Init /\ [][Next]_vars

-----------------------------------------------------------------------------
(* The resolution pass as a function of the text read from the file: the   *)
(* scan loop entered with any text, whatever the inspector said of the     *)
(* file when the queue was built.                                          *)

\* a text with the wrapper macros and no marker
PlainDocs == { <<"t", ADD_OPEN, "a", CLOSE, DEL_OPEN, "d", CLOSE, "\n">> }

InitScan ==
    /\ \E a \in Docs \cup PlainDocs :
           disk = (Files[1] :> a) @@ (Files[2] :> <<"x">>)
    /\ filelist = <<Files[1]>>
    /\ modifiedfiles = <<>>
    /\ modified = FALSE
    /\ pc = "scan"
    /\ filetorevise = Files[1]
    /\ filetext = disk[Files[1]]
    /\ revisedfiletext = <<>>
    /\ head = 0
    /\ tail = 0
    /\ change = <<>>
    /\ disk0 = disk
    /\ spanAt = 0
    /\ log = <<>>
    /\ decided = {}
    /\ written = <<>>
    /\ quitAt = ""
    /\ snap = <<>>
    /\ endlog = <<>>

NextScan ==
    \/ ScanStep
    \/ \E userinput \in Inputs : DelPrompt(userinput)
    \/ \E savepartial \in Inputs : DelSave(savepartial)
    \/ \E userinput \in Inputs : AddPrompt(userinput)
    \/ \E savepartial \in Inputs : AddSave(savepartial)
    \/ \E generatepdf \in Inputs : GeneratePdf(generatepdf)
    \/ \E savechanges \in Inputs : SaveChanges(savechanges)

ScanSpec == InitScan /\ [][NextScan]_vars

-----------------------------------------------------------------------------
(* The session of a process that keeps running and of a user who answers: *)
(* a step that changes the state (a scan iteration, an answer the prompt   *)
(* accepts) is taken whenever one stays possible.                          *)

\* the user answers: the menu and every prompt get an accepted answer
UserAnswers ==
    /\ WF_vars(\E filenumber \in 0..(Len(Files) + 1) : MenuNumber(filenumber))
    /\ WF_vars(\E filenumber \in MenuStrings : MenuText(filenumber))
    /\ WF_vars(\E userinput \in Inputs : DelPrompt(userinput))
    /\ WF_vars(\E savepartial \in Inputs : DelSave(savepartial))
    /\ WF_vars(\E userinput \in Inputs : AddPrompt(userinput))
    /\ WF_vars(\E savepartial \in Inputs : AddSave(savepartial))
    /\ WF_vars(\E generatepdf \in Inputs : GeneratePdf(generatepdf))
    /\ WF_vars(\E savechanges \in Inputs : SaveChanges(savechanges))

\* the process runs: the inspector is called, and the scan loop goes on.
\* ScanStep is enabled exactly when pc = "scan", so the second conjunct is
\* WF_vars(ScanStep) with its ENABLED written out.
ProcessRuns ==
    /\ WF_vars(Revise)
    /\ ([]<>(pc # "scan") \/ []<><<ScanStep>>_vars)

LiveSpec == Init /\ [][Next]_vars /\ UserAnswers /\ ProcessRuns

-----------------------------------------------------------------------------
(* Vocabulary of the properties *)

BeginOf(kind) == IF kind = "add" THEN ADD_BEGIN ELSE DEL_BEGIN
EndOf(kind) == IF kind = "add" THEN ADD_END ELSE DEL_END
OpenOf(kind) == IF kind = "add" THEN ADD_OPEN ELSE DEL_OPEN

\* the kind of the span whose begin marker is at offset `at` of text
KindAt(text, at) == IF text[at + 1] = ADD_BEGIN THEN "add" ELSE "del"

\* Add/Accept and Del/Reject keep the inner text, the other two drop it
Kept(kind, dec) == (kind = "add" /\ dec = "Y") \/ (kind = "del" /\ dec = "N")

\* the stripped inner text of the span whose begin marker is at offset `at`:
\* what lies between the begin marker with its whitespace and the next end
\* marker of the kind, without the wrapper macro
InnerText(text, at, kind) ==
    LET b == at + 1 + WsRun(text, at + 1)
        e == b + Find(EndOf(kind), From(text, b))
    IN  SubWrapper(OpenOf(kind), Slice(text, b, e))

\* the pass over the current file ended without Quit and wrote the file
FullPass == written # <<>> /\ quitAt \notin {"add", "del"}

\* the pass over the current file ended with Quit and a partial save
PartialSave == written # <<>> /\ quitAt \in {"add", "del"}

\* the literal text from offset cur to offset stop, with the contribution of
\* every decided span in place of the span
RECURSIVE WeaveTo(_, _, _, _)
WeaveTo(text, entries, cur, stop) ==
    IF entries = <<>> THEN Slice(text, cur, stop)
    ELSE LET e == Head(entries)
         IN  Slice(text, cur, e.at)
             \o (IF Kept(e.kind, e.dec) THEN e.text ELSE <<>>)
             \o WeaveTo(text, Tail(entries), e.to, stop)

\* offset i of text lies inside the preamble block found from offset cur
InPreambleFrom(text, cur, i) ==
    LET m == SearchPreamble(From(text, cur))
    IN  m.found /\ cur + m.start < i /\ i < cur + m.end

\* the decided spans are spans of the text, in document order, and no begin
\* marker outside a preamble block lies between them
RECURSIVE SpansInOrder(_, _, _)
SpansInOrder(text, entries, cur) ==
    IF entries = <<>> THEN TRUE
    ELSE LET e == Head(entries)
         IN  /\ cur <= e.at /\ e.at < e.to /\ e.to <= Len(text)
             /\ text[e.at + 1] = BeginOf(e.kind)
             /\ \E j \in (e.at + 1)..(e.to - 1) :
                    /\ text[j + 1] = EndOf(e.kind)
                    /\ e.to = j + 1 + WsRun(text, j + 1)
             /\ \A i \in cur..(e.at - 1) :
                    text[i + 1] \in {ADD_BEGIN, DEL_BEGIN}
                        => InPreambleFrom(text, cur, i)
             /\ SpansInOrder(text, Tail(entries), e.to)

-----------------------------------------------------------------------------
(* C1: every Accept or Reject answered at a span's prompt appends to the   *)
(* output exactly what the truth table says: the stripped inner text for   *)
(* Add/Accept and Del/Reject, nothing for Add/Reject and Del/Accept; the   *)
(* prompt is the one of the span's kind, wherever the span lies.           *)
TruthTable ==
    [][ (pc \in {"addprompt", "delprompt"} /\ pc' = "scan") =>
            LET e == log'[Len(log')]
                kind == KindAt(filetext, spanAt)
            IN  /\ filetext[spanAt + 1] \in {ADD_BEGIN, DEL_BEGIN}
                /\ pc = (IF kind = "add" THEN "addprompt" ELSE "delprompt")
                /\ revisedfiletext' =
                       revisedfiletext
                       \o (IF Kept(kind, e.dec)
                           THEN InnerText(filetext, spanAt, kind) ELSE <<>>)
      ]_vars

\* a pass in which a deletion at the start was rejected and an addition
\* behind it accepted, both with inner text
TruthTableWitness ==
    /\ Len(log) >= 2
    /\ \E i, j \in 1..Len(log) :
           /\ i < j
           /\ log[i].kind = "del" /\ log[i].dec = "N" /\ log[i].text # <<>>
           /\ log[j].kind = "add" /\ log[j].dec = "Y" /\ log[j].text # <<>>
           /\ Len(revisedfiletext) >= 2

-----------------------------------------------------------------------------
(* C2: the text written by a pass that Quit did not end is the document's  *)
(* literal text, in order and verbatim, with each decided span replaced by *)
(* its contribution; the decided spans are spans of the document in        *)
(* document order and no begin marker outside a preamble block is copied.  *)
LiteralTextCopied ==
    FullPass =>
        LET last == IF log = <<>> THEN 0 ELSE log[Len(log)].to
        IN  /\ written = <<WeaveTo(filetext, log, 0, Len(filetext))>>
            /\ SpansInOrder(filetext, log, 0)
            /\ \A i \in last..(Len(filetext) - 1) :
                   filetext[i + 1] \in {ADD_BEGIN, DEL_BEGIN}
                       => InPreambleFrom(filetext, last, i)

\* a full pass with literal text before the first span, between two spans
\* and after the last one
LiteralTextCopiedWitness ==
    /\ FullPass
    /\ Len(log) = 2
    /\ log[1].at > 0
    /\ log[2].at > log[1].to
    /\ log[2].to < Len(filetext)

-----------------------------------------------------------------------------
(* C3: a partial save writes the output so far followed by the raw         *)
(* remainder of the input from the begin marker of the span under decision *)
(* on, so that the span is still in the file.                              *)
PartialSaveKeepsSpan ==
    PartialSave =>
        written = <<WeaveTo(filetext, log, 0, spanAt) \o From(filetext, spanAt)>>

-----------------------------------------------------------------------------
(* C4 as stated: "A \DIFaddbegin \DIFadd{new text}\DIFaddend B" resolves   *)
(* to "A new text B" when the addition is accepted and to "A  B" when it   *)
(* is rejected.                                                            *)
ExampleAddAsStated ==
    (FullPass /\ filetext = ExampleAdd /\ Len(log) = 1) =>
        written = << IF log[1].dec = "Y"
                     THEN <<"A", " ", "new", " ", "text", " ", "B">>
                     ELSE <<"A", " ", " ", "B">> >>

(* C4 amended: the same input resolves to "A new textB" when the addition  *)
(* is accepted and to "A B" when it is rejected: the whitespace behind the *)
(* end marker goes with the marker.                                        *)
ExampleAddResolved ==
    (FullPass /\ filetext = ExampleAdd) =>
        /\ Len(log) = 1
        /\ written = << IF log[1].dec = "Y"
                        THEN <<"A", " ", "new", " ", "text", "B">>
                        ELSE <<"A", " ", "B">> >>

\* the example was resolved with its addition accepted
ExampleAddWitness ==
    FullPass /\ filetext = ExampleAdd /\ log # <<>> /\ log[1].dec = "Y"

-----------------------------------------------------------------------------
(* C5 as stated: "X \DIFdelbegin\DIFdel{old}\DIFdelend Y" resolves to      *)
(* "X old Y" when the deletion is rejected and to "X  Y" when it is        *)
(* accepted.                                                               *)
ExampleDelAsStated ==
    (FullPass /\ filetext = ExampleDel /\ Len(log) = 1) =>
        written = << IF log[1].dec = "N"
                     THEN <<"X", " ", "old", " ", "Y">>
                     ELSE <<"X", " ", " ", "Y">> >>

(* C5 amended: the same input resolves to "X oldY" when the deletion is    *)
(* rejected and to "X Y" when it is accepted: the whitespace behind the    *)
(* end marker goes with the marker.                                        *)
ExampleDelResolved ==
    (FullPass /\ filetext = ExampleDel) =>
        /\ Len(log) = 1
        /\ written = << IF log[1].dec = "N"
                        THEN <<"X", " ", "old", "Y">>
                        ELSE <<"X", " ", "Y">> >>

\* the example was resolved with its deletion rejected
ExampleDelWitness ==
    FullPass /\ filetext = ExampleDel /\ log # <<>> /\ log[1].dec = "N"

-----------------------------------------------------------------------------
(* C6: once a span of the current file has been accepted or rejected, the  *)
(* dirty flag is set.                                                      *)
DirtyAfterDecision ==
    (log # <<>> /\ pc \in {"scan", "addprompt", "delprompt"}) => modified

-----------------------------------------------------------------------------
(* C7: a session that has ended has called, once each and in this order,   *)
(* remove_preamble (the inspector's second run), generate_pdf and          *)
(* save_changes.                                                           *)
SameEndOfSession ==
    pc = "done" =>
        endlog = <<"remove_preamble", "generate_pdf", "save_changes">>

-----------------------------------------------------------------------------
(* C8: a decision is requested only for a span that has an end marker of   *)
(* its kind; when the scan comes to a begin marker with no end marker of   *)
(* its kind behind it, the error is raised at once, and then the file on   *)
(* disk is as it was and is not in the modified-files list.                *)

\* the begin marker at offset i of text has no end marker of its kind after it
NoEndAfter(text, i) ==
    \A j \in (i + 1)..(Len(text) - 1) : text[j + 1] # EndOf(KindAt(text, i))

\* the nearest token of interest at or after the cursor is a begin marker
\* with no end marker of its kind after it
AtMalformedSpan ==
    /\ pc = "scan"
    /\ \E i \in head..(Len(filetext) - 1) :
           /\ filetext[i + 1] \in {ADD_BEGIN, DEL_BEGIN}
           /\ \A k \in head..(i - 1) :
                  filetext[k + 1] \notin {ADD_BEGIN, DEL_BEGIN, PRE_BEGIN}
           /\ NoEndAfter(filetext, i)

MalformedSpanRaises ==
    /\ [](pc \in {"addprompt", "delprompt", "addsave", "delsave"}
              => ~NoEndAfter(filetext, spanAt))
    /\ [](pc = "crashed"
              => /\ filetext[spanAt + 1] \in {ADD_BEGIN, DEL_BEGIN}
                 /\ NoEndAfter(filetext, spanAt)
                 /\ written = <<>>
                 /\ disk[filetorevise] = disk0[filetorevise]
                 /\ ~InSeq(filetorevise, modifiedfiles))
    /\ [][AtMalformedSpan
              => /\ pc' = "crashed"
                 /\ disk' = disk
                 /\ modifiedfiles' = modifiedfiles]_vars

\* the error was raised at the third span of a file, after two decisions
MalformedSpanWitness ==
    pc = "crashed" /\ Len(log) = 2 /\ modified

-----------------------------------------------------------------------------
(* C9: a file that holds a begin marker with nothing behind it that could  *)
(* close it (no end marker, no preamble end) is never overwritten.         *)

OpenSpan(text) ==
    \E i \in 1..Len(text) :
        /\ text[i] \in {ADD_BEGIN, DEL_BEGIN}
        /\ \A j \in (i + 1)..Len(text) : text[j] \notin {ADD_END, DEL_END, PRE_END}

UnparsedFileUntouched ==
    pc # "ioerror" =>
        \A f \in DOMAIN disk0 : OpenSpan(disk0[f]) => disk[f] = disk0[f]

-----------------------------------------------------------------------------
(* C10: when remove_preamble has changed a file, no file of the directory  *)
(* held, at that moment, a begin marker outside its preamble block, and    *)
(* the inspector reported none; when it was not called, or some file held  *)
(* such a marker, the session's end changed no file.                       *)

SpanOutsidePreamble(text) ==
    \E i \in 0..(Len(text) - 1) :
        /\ text[i + 1] \in {ADD_BEGIN, DEL_BEGIN}
        /\ ~InPreambleFrom(text, 0, i)

StrippingOnlyWhenClean ==
    snap # <<>> =>
        /\ disk # snap[1] =>
               /\ get_modified_latex_files(snap[1]) = <<>>
               /\ \A f \in DOMAIN snap[1] : ~SpanOutsidePreamble(snap[1][f])
        /\ (\E f \in DOMAIN snap[1] : SpanOutsidePreamble(snap[1][f])) =>
               disk = snap[1]

\* remove_preamble took the preamble out of a modified file
StrippingWitness ==
    /\ snap # <<>>
    /\ \E f \in FileSet :
           /\ SearchPreamble(snap[1][f]).found
           /\ disk[f] = SubPreamble(snap[1][f])
           /\ disk[f] # snap[1][f]

-----------------------------------------------------------------------------
(* C11: once Quit has been entered at a span, the process is only ever at  *)
(* "Save partial file?", at the build and commit prompts or terminated:    *)
(* no span is offered, no file is offered or scanned, however many files   *)
(* the queue still holds; and it terminates out of save_changes.           *)
QuitAbortsQueue ==
    quitAt \in {"add", "del"} =>
        /\ pc \in {"addsave", "delsave", "genpdf", "commit", "done", "ioerror"}
        /\ InSeq(filetorevise, filelist)
        /\ pc = "done" => endlog[Len(endlog)] = "save_changes"

\* the session ended by Quit at a span while both files were still queued
QuitAbortsQueueWitness ==
    quitAt \in {"add", "del"} /\ pc = "done" /\ Len(filelist) = 2

-----------------------------------------------------------------------------
(* C12: when a pass ends without Quit the output is what the file holds,   *)
(* the file is in the modified-files list and off the queue, and the menu  *)
(* comes back while files are queued; while the session is still offering  *)
(* or scanning files, no file of the modified-files list is in the queue.  *)
ResolvedFileLeavesQueue ==
    /\ FullPass =>
           /\ InSeq(filetorevise, modifiedfiles)
           /\ ~InSeq(filetorevise, filelist)
           /\ pc = "menu" => disk[filetorevise] = written[1]
           /\ snap # <<>> => snap[1][filetorevise] = written[1]
           /\ (filelist # <<>> /\ quitAt = "") => pc \in {"menu", "valueerror"}
    /\ pc \in {"menu", "scan", "addprompt", "delprompt"} =>
           \A i \in 1..Len(modifiedfiles) : ~InSeq(modifiedfiles[i], filelist)

\* one file was resolved and saved, the other one is offered
ResolvedFileLeavesQueueWitness ==
    FullPass /\ pc = "menu" /\ Len(filelist) = 1 /\ log # <<>>

-----------------------------------------------------------------------------
(* C13: the current file is in the modified-files list exactly when its    *)
(* output was written; after a write that failed, on the full-resolution   *)
(* path or on the partial-save path, it is not in the list.                *)
RecordedOnlyAfterWrite ==
    /\ filetorevise # "" =>
           (InSeq(filetorevise, modifiedfiles) <=> written # <<>>)
    /\ pc = "ioerror" =>
           /\ written = <<>>
           /\ ~InSeq(filetorevise, modifiedfiles)

\* the write of a partial save failed and left the file truncated
RecordedOnlyAfterWriteWitness ==
    /\ pc = "ioerror"
    /\ quitAt \in {"add", "del"}
    /\ disk[filetorevise] # disk0[filetorevise]

-----------------------------------------------------------------------------
(* C14: a step taken at the file menu, at a span prompt or at the           *)
(* save-partial prompt is the step of an accepted answer (a file picked, a  *)
(* decision logged, Quit, the partial save answered); every other input     *)
(* leaves all variables unchanged and the same prompt comes again.          *)
InvalidInputReprompts ==
    [][/\ pc = "menu" => (pc' = "scan" \/ quitAt' = "menu")
       /\ pc \in {"addprompt", "delprompt"} =>
              (Len(log') = Len(log) + 1 \/ quitAt' \in {"add", "del"})
       /\ pc \in {"addsave", "delsave"} => pc' \in {"genpdf", "done", "ioerror"}
      ]_vars

-----------------------------------------------------------------------------
(* C15: the File Set Inspector reports a file exactly when the file holds   *)
(* an Add or Del begin marker outside its preamble block; the queue the     *)
(* session starts with is exactly those files, in walk order.               *)
InspectorExact ==
    /\ \A f \in DOMAIN disk : Annotated(disk[f]) <=> SpanOutsidePreamble(disk[f])
    /\ (pc = "menu" /\ modifiedfiles = <<>>) =>
           filelist = SelectSeq(Files, LAMBDA f : SpanOutsidePreamble(disk0[f]))

\* a file whose only begin marker lies inside the preamble block is not
\* offered, while the other file is
InspectorExactWitness ==
    /\ pc = "menu"
    /\ modifiedfiles = <<>>
    /\ filelist = <<Files[2]>>
    /\ \E i \in 1..Len(disk[Files[1]]) :
           disk[Files[1]][i] \in {ADD_BEGIN, DEL_BEGIN}

-----------------------------------------------------------------------------
(* C16: the inspector's error exit is taken exactly in a directory without  *)
(* document files, and then nothing was written and no session state made;  *)
(* with document files of which none holds a span outside its preamble      *)
(* block, the session runs its end-of-session calls at once, asks nothing   *)
(* and changes no file.                                                     *)
NoFilesExact ==
    /\ pc # "start" => (pc = "nofiles" <=> DOMAIN disk0 = {})
    /\ pc = "nofiles" =>
           /\ disk = disk0
           /\ filelist = <<>> /\ modifiedfiles = <<>> /\ filetorevise = ""
           /\ written = <<>> /\ log = <<>> /\ endlog = <<>> /\ snap = <<>>
    /\ (/\ pc # "start"
        /\ DOMAIN disk0 # {}
        /\ \A f \in DOMAIN disk0 : ~SpanOutsidePreamble(disk0[f])) =>
           /\ pc = "done"
           /\ disk = disk0
           /\ filelist = <<>> /\ modifiedfiles = <<>>
           /\ written = <<>> /\ log = <<>>
           /\ endlog = <<"remove_preamble", "generate_pdf", "save_changes">>

\* the error exit in the empty directory
NoFilesExactWitness ==
    pc = "nofiles" /\ DOMAIN disk = {}

-----------------------------------------------------------------------------
(* C17: a pass over a text without any sentinel token (preamble, Add or    *)
(* Del, begin or end) requests no decision and, when its write succeeds,   *)
(* writes the text it read: the file is the same after the pass.           *)
NoSentinel(text) ==
    \A i \in 1..Len(text) :
        text[i] \notin {PRE_BEGIN, PRE_END, ADD_BEGIN, ADD_END, DEL_BEGIN, DEL_END}

NoSentinelNoOp ==
    NoSentinel(filetext) =>
        /\ pc \in {"scan", "ioerror", "genpdf", "commit", "done"}
        /\ log = <<>>
        /\ pc = "scan" => head = 0 /\ revisedfiletext = <<>>
        /\ pc # "scan" => revisedfiletext = filetext
        /\ pc \notin {"scan", "ioerror"} =>
               /\ written = <<filetext>>
               /\ disk = disk0

\* the pass over a text of wrapper macros without markers is over
NoSentinelNoOpWitness ==
    /\ filetext \in PlainDocs
    /\ written = <<filetext>>
    /\ pc = "done"

-----------------------------------------------------------------------------
(* C18: when every span of the text read is well-formed and not nested,    *)
(* the output of a pass that was not ended by Quit holds no Add or Del     *)
(* begin marker outside the preamble block: the inspector does not list    *)
(* it, and a second pass over it asks nothing and returns it unchanged.    *)
SpanMarkers == {ADD_BEGIN, ADD_END, DEL_BEGIN, DEL_END}

\* every begin marker outside the preamble block is followed by the end
\* marker of its kind, with no other span marker in between
WellFormed(text) ==
    \A i \in 1..Len(text) :
        (text[i] \in {ADD_BEGIN, DEL_BEGIN} /\ ~InPreambleFrom(text, 0, i - 1)) =>
            \E j \in (i + 1)..Len(text) :
                /\ text[j] = IF text[i] = ADD_BEGIN THEN ADD_END ELSE DEL_END
                /\ \A k \in (i + 1)..(j - 1) : text[k] \notin SpanMarkers

FullResolutionIdempotent ==
    (FullPass /\ WellFormed(filetext)) =>
        /\ ~SpanOutsidePreamble(written[1])
        /\ ~Annotated(written[1])
        /\ ScanToPrompt(written[1], 0, <<>>) = [asked |-> FALSE, out |-> written[1]]

\* a full pass that decided two spans and went through a preamble block
FullResolutionIdempotentWitness ==
    /\ FullPass
    /\ WellFormed(filetext)
    /\ Len(log) >= 2
    /\ SearchPreamble(written[1]).found
    /\ written[1] # filetext

-----------------------------------------------------------------------------
(* C19: at a span prompt the text offered is the argument of the wrapper   *)
(* macro, taken between the wrapper's opening brace and the brace that     *)
(* matches it, whenever the inner text is wrapper{ARG} with balanced       *)
(* braces in ARG; inner text without a wrapper is offered as it is.        *)
RECURSIVE Depth(_)
Depth(s) ==
    IF s = <<>> THEN 0
    ELSE Depth(SubSeq(s, 1, Len(s) - 1))
         + (IF s[Len(s)] \in {OPEN, ADD_OPEN, DEL_OPEN} THEN 1
            ELSE IF s[Len(s)] = CLOSE THEN -1 ELSE 0)

\* every closing brace of s closes a brace opened in s, and none stays open
Balanced(s) ==
    /\ Depth(s) = 0
    /\ \A n \in 1..Len(s) : Depth(SubSeq(s, 1, n)) >= 0

WrapperArgOffered ==
    pc \in {"addprompt", "delprompt"} =>
        LET inner == Slice(filetext, tail, head)
            open == IF pc = "addprompt" THEN ADD_OPEN ELSE DEL_OPEN
            arg == SubSeq(inner, 2, Len(inner) - 1)
        IN  /\ (/\ Len(inner) >= 2
                /\ inner[1] = open
                /\ inner[Len(inner)] = CLOSE
                /\ Balanced(arg)) => change = arg
            /\ Find(open, inner) = -1 => change = inner

-----------------------------------------------------------------------------
(* C20: a scan step taken where a preamble block starts before every Add   *)
(* and Del begin marker behind the cursor copies the text from the cursor  *)
(* through the block's end marker, asks for no decision and, while a begin *)
(* marker is left, goes on scanning behind the block; a span offered by a  *)
(* scan step never begins inside the preamble block found at that step.    *)
PreambleFirst ==
    LET rest == From(filetext, head)
        m == SearchPreamble(rest)
    IN  /\ pc = "scan"
        /\ m.found
        /\ \A i \in 1..Len(rest) :
               rest[i] \in {ADD_BEGIN, DEL_BEGIN} => m.start < i - 1

PreambleSkipped ==
    [][/\ PreambleFirst =>
              LET rest == From(filetext, head)
                  m == SearchPreamble(rest)
                  block == Slice(filetext, head, head + m.end)
              IN  /\ log' = log
                  /\ pc' \notin {"addprompt", "delprompt", "crashed"}
                  /\ Len(revisedfiletext') >= Len(revisedfiletext) + m.end
                  /\ SubSeq(revisedfiletext', 1, Len(revisedfiletext) + m.end)
                         = revisedfiletext \o block
                  /\ (\E i \in 1..Len(rest) : rest[i] \in {ADD_BEGIN, DEL_BEGIN}) =>
                         /\ pc' = "scan"
                         /\ head' = head + m.end
                         /\ tail' = head'
                         /\ revisedfiletext' = revisedfiletext \o block
       /\ (pc = "scan" /\ pc' \in {"addprompt", "delprompt"}) =>
              ~InPreambleFrom(filetext, head, spanAt')
      ]_vars

\* the scan has stepped over a preamble block that holds a begin marker
PreambleSkippedWitness ==
    /\ pc = "scan"
    /\ head > 0
    /\ log = <<>>
    /\ filetext[head] = PRE_END
    /\ revisedfiletext = Slice(filetext, 0, head)
    /\ \E i \in 1..head : filetext[i] \in {ADD_BEGIN, DEL_BEGIN}

-----------------------------------------------------------------------------
(* C21: after Quit at a span prompt the partial save is offered only when  *)
(* a decision was taken in the current file; while no partial save was     *)
(* written (not offered, discarded, or not answered yet) the current file  *)
(* is on disk as the session found it and is not in the modified-files     *)
(* list; the queue is not processed any further.                           *)
QuitWithoutSave ==
    quitAt \in {"add", "del"} =>
        /\ pc \in {"addsave", "delsave"} => (modified /\ log # <<>>)
        /\ ~modified => written = <<>>
        /\ (written = <<>> /\ pc # "ioerror") =>
               /\ disk[filetorevise] = disk0[filetorevise]
               /\ ~InSeq(filetorevise, modifiedfiles)
        /\ pc \notin {"menu", "scan", "addprompt", "delprompt"}
        /\ InSeq(filetorevise, filelist)

\* the partial save was offered and discarded, the session is over
QuitWithoutSaveWitness ==
    /\ quitAt \in {"add", "del"}
    /\ modified
    /\ written = <<>>
    /\ pc = "done"
    /\ Len(filelist) = 2

-----------------------------------------------------------------------------
(* C22 as stated: at the end of a session the modified-files list holds    *)
(* exactly the files in which a span was accepted or rejected.             *)
ModifiedFilesAsStated ==
    pc = "done" =>
        \A f \in DOMAIN disk : InSeq(f, modifiedfiles) <=> f \in decided

(* C22: at the end of a session the modified-files list holds exactly the  *)
(* files whose text on disk was replaced during the session, by a full     *)
(* pass or by a partial save; every listed file had a span accepted or     *)
(* rejected, while a file whose decisions were not saved is not listed.    *)
ModifiedFilesAreWritten ==
    /\ \A f \in DOMAIN disk : InSeq(f, modifiedfiles) => f \in decided
    /\ pc = "done" =>
           \A f \in DOMAIN disk : InSeq(f, modifiedfiles) <=> disk[f] # disk0[f]

\* one file went through a full pass; in the other a decision was taken
\* and then discarded at Quit
ModifiedFilesAreWrittenWitness ==
    /\ pc = "done"
    /\ modifiedfiles = <<Files[2]>>
    /\ Files[1] \in decided
    /\ modified

-----------------------------------------------------------------------------
(* C23: the text written by a pass that Quit did not end holds, for every  *)
(* decided span, neither its begin marker nor its end marker nor the       *)
(* whitespace run that follows each of them: between the literal text      *)
(* before the begin marker and the literal text behind the end marker's    *)
(* whitespace there is the span's inner text or nothing.                   *)
RECURSIVE WithoutTokens(_, _, _)
WithoutTokens(text, entries, cur) ==
    IF entries = <<>> THEN Slice(text, cur, Len(text))
    ELSE LET e == Head(entries)
             inner == e.at + 1 + WsRun(text, e.at + 1)
             endmark == inner + Find(EndOf(e.kind), From(text, inner))
             behind == endmark + 1 + WsRun(text, endmark + 1)
         IN  Slice(text, cur, e.at)
             \o (IF Kept(e.kind, e.dec)
                 THEN SubWrapper(OpenOf(e.kind), Slice(text, inner, endmark))
                 ELSE <<>>)
             \o WithoutTokens(text, Tail(entries), behind)

TokensNotCopied ==
    FullPass =>
        /\ written[1] = WithoutTokens(filetext, log, 0)
        /\ \A i \in 1..Len(log) :
               /\ filetext[log[i].at + 1] = BeginOf(log[i].kind)
               /\ \A k \in 1..Len(log[i].text) :
                      log[i].text[k] \in SpanMarkers =>
                          \E j \in (log[i].at + 2)..log[i].to :
                              filetext[j] = log[i].text[k]

\* a full pass over two spans with whitespace behind a begin marker and
\* behind an end marker
TokensNotCopiedWitness ==
    /\ FullPass
    /\ filetext = Mixed
    /\ Len(log) = 2
    /\ log[1].dec = "Y" /\ log[2].dec = "N"

-----------------------------------------------------------------------------
(* C24: the pass over an Add span alone writes "a" or nothing, the pass    *)
(* over a Del span alone writes "d" or nothing, and the pass over the Add  *)
(* span immediately followed by the Del span writes, for each of the four  *)
(* pairs of decisions, the first followed by the second; the text offered  *)
(* for each span is the same whatever was decided on the other.            *)
Alone(kind, dec) ==
    IF ~Kept(kind, dec) THEN <<>>
    ELSE IF kind = "add" THEN <<"a">> ELSE <<"d">>

AdjacentSpansIndependent ==
    FullPass =>
        /\ filetext = AddSpan =>
               /\ Len(log) = 1 /\ log[1].kind = "add"
               /\ written[1] = Alone("add", log[1].dec)
        /\ filetext = DelSpan =>
               /\ Len(log) = 1 /\ log[1].kind = "del"
               /\ written[1] = Alone("del", log[1].dec)
        /\ filetext = AddSpan \o DelSpan =>
               /\ Len(log) = 2
               /\ log[1].kind = "add" /\ log[1].text = <<"a">>
               /\ log[2].kind = "del" /\ log[2].text = <<"d">>
               /\ written[1] =
                      Alone("add", log[1].dec) \o Alone("del", log[2].dec)

\* both adjacent spans were decided so that their text is kept
AdjacentSpansIndependentWitness ==
    /\ FullPass
    /\ filetext = AddSpan \o DelSpan
    /\ written[1] = <<"a", "d">>

-----------------------------------------------------------------------------
(* C25: the span a scan step offers begins at the Add or Del begin marker  *)
(* nearest at or after the cursor of that step, and the prompt is the one  *)
(* of its kind; while a span is offered the file and the span stay the     *)
(* same and the only decision that can be logged is the one of that span,  *)
(* after which the cursor is behind it; every logged decision is for a     *)
(* span that starts behind the end of all spans decided before it.         *)
OneSpanAtATime ==
    [][/\ (pc = "scan" /\ pc' \in {"addprompt", "delprompt"}) =>
              /\ head <= spanAt' /\ spanAt' < Len(filetext)
              /\ filetext[spanAt' + 1] =
                     (IF pc' = "addprompt" THEN ADD_BEGIN ELSE DEL_BEGIN)
              /\ \A i \in head..(spanAt' - 1) :
                     filetext[i + 1] \notin {ADD_BEGIN, DEL_BEGIN}
              /\ log' = log
       /\ pc \in {"addprompt", "delprompt"} =>
              /\ filetorevise' = filetorevise
              /\ filetext' = filetext
              /\ spanAt' = spanAt
              /\ pc' \notin {"addprompt", "delprompt"}
              /\ \/ log' = log
                 \/ /\ Len(log') = Len(log) + 1
                    /\ SubSeq(log', 1, Len(log)) = log
                    /\ log'[Len(log')].at = spanAt
                    /\ \A i \in 1..Len(log) : log[i].to <= spanAt
                    /\ pc' = "scan"
                    /\ head' > spanAt
       /\ pc \notin {"addprompt", "delprompt"} =>
              (log' = log \/ log' = <<>>)
      ]_vars

\* a second span is offered behind a decided one
OneSpanAtATimeWitness ==
    /\ pc \in {"addprompt", "delprompt"}
    /\ Len(log) = 1
    /\ spanAt > log[1].to

-----------------------------------------------------------------------------
(* C26: in a pass every step leaves the output buffer as it is or appends  *)
(* to it, no step moves the cursor back, and every step of the scan loop   *)
(* after which the pass goes on (a preamble block stepped over, a span     *)
(* found, a span decided) moves the cursor strictly forward.               *)
IsPrefix(s, t) == Len(s) <= Len(t) /\ SubSeq(t, 1, Len(s)) = s

ForwardOnly ==
    [][/\ IsPrefix(revisedfiletext, revisedfiletext')
       /\ head' >= head
       /\ tail' >= tail
       /\ filetext' = filetext
       /\ (pc' \in {"scan", "addprompt", "delprompt"} /\ pc' # pc) => head' > head
       /\ (pc = "scan" /\ pc' = "scan") => head' > head
       /\ pc' = "scan" => (tail' = head' /\ head' <= Len(filetext))
      ]_vars

\* two spans were decided, text was appended and the scan goes on
ForwardOnlyWitness ==
    /\ pc = "scan"
    /\ Len(log) = 2
    /\ 0 < head /\ head < Len(filetext)
    /\ Len(revisedfiletext) >= 2

-----------------------------------------------------------------------------
(* C27: at every cursor position of a text the positions computed for the  *)
(* nearest Add and Del begin markers are equal exactly when no Add or Del  *)
(* begin marker lies at or after the cursor; a scan step ends the pass by  *)
(* copying the remainder exactly when none is left, and otherwise the pass *)
(* goes on and nothing is written.                                         *)
NoSpanFrom(text, h) ==
    \A i \in (h + 1)..Len(text) : text[i] \notin {ADD_BEGIN, DEL_BEGIN}

Tie(text, h) ==
    StartOf(Search(ADD_BEGIN, From(text, h)), text)
        = StartOf(Search(DEL_BEGIN, From(text, h)), text)

TieOnlyAtEnd ==
    [][(pc = "scan" /\ head < Len(filetext)) =>
           /\ \A h \in 0..(Len(filetext) - 1) :
                  Tie(filetext, h) <=> NoSpanFrom(filetext, h)
           /\ NoSpanFrom(filetext, head) =>
                  /\ pc' \in {"genpdf", "done", "ioerror"}
                  /\ revisedfiletext' = revisedfiletext \o From(filetext, head)
           /\ ~NoSpanFrom(filetext, head) =>
                  /\ pc' \in {"scan", "addprompt", "delprompt", "crashed"}
                  /\ written' = written /\ disk' = disk
      ]_vars

\* the pass ended by copying the text behind the last span
TieOnlyAtEndWitness ==
    /\ FullPass
    /\ log # <<>>
    /\ log[Len(log)].to < Len(filetext)
    /\ Len(written[1]) > 0

-----------------------------------------------------------------------------
(* C28: when every begin marker of every file has an end marker of its     *)
(* kind behind it, the session of a user who keeps answering comes to      *)
(* its exit out of save_changes, unless a write fails, the file menu is    *)
(* answered with a digit int() rejects, or the directory has no file; a    *)
(* file that was completed shrinks the queue, the queue never grows, and   *)
(* every scan step and every decision moves the cursor forward.            *)
Closed(text) ==
    \A i \in 1..Len(text) :
        text[i] \in {ADD_BEGIN, DEL_BEGIN} =>
            \E j \in (i + 1)..Len(text) :
                text[j] = IF text[i] = ADD_BEGIN THEN ADD_END ELSE DEL_END

SessionTerminates ==
    /\ (\A f \in DOMAIN disk : Closed(disk[f])) =>
           <>(pc \in {"done", "ioerror", "valueerror", "nofiles"})
    /\ [][/\ (pc = "scan" /\ pc' \in {"menu", "genpdf", "done"}) =>
                 Len(filelist') = Len(filelist) - 1
          /\ pc # "start" => Len(filelist') <= Len(filelist)
          /\ (pc \in {"scan", "addprompt", "delprompt"}
              /\ pc' \in {"scan", "addprompt", "delprompt"}) => head' > head
         ]_vars

\* both files were completed and the session left through save_changes
SessionTerminatesWitness ==
    /\ pc = "done"
    /\ filelist = <<>>
    /\ Len(modifiedfiles) = 2
    /\ quitAt = ""

-----------------------------------------------------------------------------
(* C29: when remove_preamble strips, each file of modifiedfiles loses the   *)
(* text from its first preamble begin marker to its last preamble end       *)
(* marker, both included, and keeps the text before and behind it as it     *)
(* was; a file without such a block, and every file that is not in          *)
(* modifiedfiles, is left as it was.                                        *)
Stripped(old) ==
    LET begins == {i \in 1..Len(old) : old[i] = PRE_BEGIN}
        ends == {i \in 1..Len(old) : old[i] = PRE_END}
    IN  IF \E b \in begins, e \in ends : b < e
        THEN LET first == CHOOSE b \in begins : \A i \in begins : b <= i
                 last == CHOOSE e \in ends : \A i \in ends : i <= e
             IN  SubSeq(old, 1, first - 1) \o SubSeq(old, last + 1, Len(old))
        ELSE old

\* remove_preamble was called and found no annotated file
StrippingRan ==
    /\ snap # <<>>
    /\ \A f \in DOMAIN snap[1] : ~Annotated(snap[1][f])

PreambleStripped ==
    StrippingRan =>
        \A f \in DOMAIN disk :
            disk[f] = IF InSeq(f, modifiedfiles)
                      THEN Stripped(snap[1][f])
                      ELSE snap[1][f]

\* the first file lost one block that ran over two preamble end markers
\* and kept the text on both sides; the second file has a preamble, is not
\* in the list and kept it
PreambleStrippedWitness ==
    /\ StrippingRan
    /\ snap[1][Files[1]] = <<"t">> \o Preamble \o <<"m">> \o Preamble \o <<"a", "z">>
    /\ disk[Files[1]] = <<"t", "a", "z">>
    /\ modifiedfiles = <<Files[1]>>
    /\ disk[Files[2]] = Preamble \o <<"x">>

-----------------------------------------------------------------------------
(* C30: once remove_preamble has stripped, no file of modifiedfiles holds   *)
(* an addition or deletion marker, begin or end; stated for sessions that   *)
(* start from files in which every such marker belongs to a span, a begin   *)
(* marker followed by the end marker of its kind.                           *)
IsSpanMarker(t) == t \in SpanMarkers

RECURSIVE PairedMarkers(_)
PairedMarkers(ms) ==
    \/ ms = <<>>
    \/ /\ Len(ms) >= 2
       /\ <<ms[1], ms[2]>> \in {<<ADD_BEGIN, ADD_END>>, <<DEL_BEGIN, DEL_END>>}
       /\ PairedMarkers(SubSeq(ms, 3, Len(ms)))

SpansPaired(text) == PairedMarkers(SelectSeq(text, IsSpanMarker))

NoMarkerAfterStripping ==
    (StrippingRan /\ \A f \in DOMAIN disk0 : SpansPaired(disk0[f])) =>
        \A f \in DOMAIN disk :
            InSeq(f, modifiedfiles) =>
                \A i \in 1..Len(disk[f]) : ~IsSpanMarker(disk[f][i])

-----------------------------------------------------------------------------
(* C31 as stated: the inspector lists a text exactly when the scan of that  *)
(* text requests a decision for at least one span.                          *)
Prompts == {"addprompt", "delprompt"}

\* the pass over the text is over, or was given up, and no span was offered
NothingOffered == pc \notin Prompts \cup {"scan"} /\ log = <<>> /\ quitAt = ""

InspectorAgreesAsStated ==
    /\ pc \in Prompts => Annotated(filetext)
    /\ NothingOffered => ~Annotated(filetext)

(* C31 amended: the inspector lists a text exactly when the scan of that    *)
(* text reaches a begin marker that no preamble block it steps over holds:  *)
(* the scan then offers that span, or raises at it when its end marker is   *)
(* missing. A pass that ends without having offered or raised is a pass     *)
(* over a text the inspector does not list.                                 *)
InspectorAgrees ==
    /\ Annotated(filetext) <=> ScanToPrompt(filetext, 0, <<>>).asked
    /\ pc \in Prompts \cup {"crashed"} => Annotated(filetext)
    /\ (NothingOffered /\ pc # "crashed") => ~Annotated(filetext)

\* a text whose only begin marker lies in the preamble block went through
\* the pass without a prompt
InspectorAgreesWitness ==
    /\ NothingOffered
    /\ pc = "done"
    /\ ~Annotated(filetext)
    /\ \E i \in 1..Len(filetext) : filetext[i] \in {ADD_BEGIN, DEL_BEGIN}

-----------------------------------------------------------------------------
(* C32: self.modified belongs to the file being revised: it is False from   *)
(* the moment a file is picked until a span of that file is accepted, so    *)
(* Quit at the first span of a file asks no "Save partial file?", writes    *)
(* nothing to that file and does not list it, whatever was done to the      *)
(* files revised before.                                                    *)
DirtyPerFile ==
    /\ (pc \in {"scan", "addprompt", "delprompt"} /\ log = <<>>) => ~modified
    /\ (quitAt \in {"add", "del"} /\ log = <<>>) =>
           /\ pc \notin {"addsave", "delsave"}
           /\ written = <<>>
           /\ disk[filetorevise] = disk0[filetorevise]
           /\ ~InSeq(filetorevise, modifiedfiles)

\* the first file was revised and saved with a change, then Quit was
\* answered at the first span of the second file
DirtyPerFileWitness ==
    /\ quitAt \in {"add", "del"}
    /\ log = <<>>
    /\ pc = "done"
    /\ Len(modifiedfiles) = 1
    /\ modifiedfiles[1] # filetorevise
    /\ disk[modifiedfiles[1]] # disk0[modifiedfiles[1]]

-----------------------------------------------------------------------------
(* C33: up to remove_preamble, a step taken while a file is the one being   *)
(* revised changes on disk no other file: every other file of the           *)
(* directory holds after the step, and before any stripping the step ends   *)
(* with, the text it held before the step.                                  *)
OnlyCurrentFileChanges ==
    [][LET beforeStripping == IF snap = <<>> /\ snap' # <<>>
                              THEN snap'[1] ELSE disk'
       IN  \A f \in DOMAIN disk :
               f # filetorevise' => beforeStripping[f] = disk[f]
      ]_vars

\* the second file was revised and written after the first, and the first
\* still holds what its own pass wrote; the second file's text was not the
\* same as the first's
OnlyCurrentFileChangesWitness ==
    /\ pc = "done"
    /\ Len(modifiedfiles) = 2
    /\ snap # <<>>
    /\ snap[1][modifiedfiles[1]] # disk0[modifiedfiles[1]]
    /\ snap[1][modifiedfiles[2]] # disk0[modifiedfiles[2]]
    /\ snap[1][modifiedfiles[1]] # snap[1][modifiedfiles[2]]

-----------------------------------------------------------------------------
(* C34: Q at the file menu decides no span and writes no file: the queue,   *)
(* modifiedfiles and the decisions made stay as they are, remove_preamble   *)
(* is called and strips nothing, because the files still in the queue hold  *)
(* their spans, and the session goes through generate_pdf and save_changes  *)
(* to its exit without coming back to the menu or to a span.                *)
MenuQuitOnlyEnds ==
    /\ [](quitAt = "menu" =>
             /\ pc \in {"genpdf", "commit", "done"}
             /\ pc = "done" =>
                    endlog = <<"remove_preamble", "generate_pdf", "save_changes">>)
    /\ [][/\ (pc = "menu" /\ quitAt' = "menu") =>
                 /\ filelist' = filelist
                 /\ modifiedfiles' = modifiedfiles
                 /\ log' = log /\ decided' = decided /\ written' = written
                 /\ disk' = disk
                 /\ snap' = <<disk>>
          /\ quitAt = "menu" =>
                 /\ disk' = disk
                 /\ filelist' = filelist
                 /\ modifiedfiles' = modifiedfiles
                 /\ log' = log /\ decided' = decided /\ written' = written
         ]_vars

\* the first file was revised, then Q at the menu ended the session with
\* the second file still in the queue
MenuQuitOnlyEndsWitness ==
    /\ quitAt = "menu"
    /\ pc = "done"
    /\ Len(modifiedfiles) = 1
    /\ Len(filelist) = 1
    /\ filelist[1] # modifiedfiles[1]

-----------------------------------------------------------------------------
(* C35: no file is scanned or saved twice in a session: the queue holds     *)
(* only files the inspector listed at the start, a step leaves it as it is  *)
(* or takes the file just revised out of it, a file picked at the menu is   *)
(* not in modifiedfiles, a file of modifiedfiles is in the queue only when  *)
(* it was saved partially at Quit, and modifiedfiles names no file twice.   *)
NoFileTwice ==
    /\ [](/\ \A i, j \in 1..Len(modifiedfiles) :
                 modifiedfiles[i] = modifiedfiles[j] => i = j
          /\ \A i, j \in 1..Len(filelist) : filelist[i] = filelist[j] => i = j
          /\ \A i \in 1..Len(filelist) :
                 /\ filelist[i] \in DOMAIN disk0
                 /\ SpanOutsidePreamble(disk0[filelist[i]])
          /\ \A f \in DOMAIN disk :
                 (InSeq(f, modifiedfiles) /\ InSeq(f, filelist)) =>
                     (f = filetorevise /\ PartialSave))
    /\ [][/\ pc # "start" =>
                 \/ filelist' = filelist
                 \/ /\ Len(filelist') = Len(filelist) - 1
                    /\ \A f \in DOMAIN disk :
                           InSeq(f, filelist') <=>
                               (InSeq(f, filelist) /\ f # filetorevise)
          /\ (pc = "menu" /\ pc' = "scan") =>
                 /\ InSeq(filetorevise', filelist)
                 /\ ~InSeq(filetorevise', modifiedfiles)
         ]_vars

\* one of two listed files was revised and is out of the queue, the other
\* is still in it
NoFileTwiceWitness ==
    /\ pc = "menu"
    /\ Len(modifiedfiles) = 1
    /\ Len(filelist) = 1
    /\ filelist[1] # modifiedfiles[1]
    /\ \A f \in DOMAIN disk0 : SpanOutsidePreamble(disk0[f])

-----------------------------------------------------------------------------
(* C36: at the top of every iteration of the scan loop head equals tail,    *)
(* and the offset of the begin marker found in filetext[head:], added to    *)
(* tail, is that marker's position in filetext: the span offered begins     *)
(* there.                                                                   *)
CursorsMeet ==
    /\ pc = "scan" => (head = tail /\ head <= Len(filetext))
    /\ pc \in {"addprompt", "delprompt"} =>
           /\ spanAt < Len(filetext)
           /\ filetext[spanAt + 1] =
                  BeginOf(IF pc = "addprompt" THEN "add" ELSE "del")
           /\ spanAt < tail /\ tail <= head

\* the loop is at the top of a further iteration, behind a decided span
\* that did not begin the text
CursorsMeetWitness ==
    /\ pc = "scan"
    /\ log # <<>>
    /\ log[1].at > 0
    /\ head = tail
    /\ head < Len(filetext)

====
